---------------------------- MODULE Spec2Model ----------------------------
(***************************************************************************)
(* A model of the RBSP retrieval functions readEfieldFtp                   *)
(* (gme/sat/rbspEfield.py) and readPotFtp (gme/sat/rbspPot.py).            *)
(* and of getF107Ap (models/msis/msis.py).                                 *)
(*                                                                         *)
(* One behaviour is one call of one of the two readers.  Time is counted   *)
(* in instants, DayLen instants to a calendar day; the remote archive, the *)
(* FTP server and the CDF parser are the environment, whose answers are    *)
(* chosen at the step that asks for them.  The code is Python 2: map()     *)
(* pads its shorter arguments with None, and a datetime does not compare   *)
(* with None.  A behaviour of SpecF107 is one call of getF107Ap on a       *)
(* parsed apf107.dat table; Python's negative list indices count from the *)
(* end of the list.                                                        *)
(***************************************************************************)
EXTENDS Integers, Sequences, FiniteSets, TLC

(* ------------------------------ bounds --------------------------------- *)
\* instants per calendar day
DayLen == 2
\* the largest eTime a caller passes
MaxTime == 2
\* the largest number of samples in one day-file
MaxSamples == 2
\* version numbers found in remote file names are 1..MaxVer
MaxVer == 1
\* the largest number of names a listing returns
MaxList == 1
\* version resolution on its own: the largest number of candidates of one
\* listing, and their version numbers 1..MaxCandVer
MaxCand == 3
MaxCandVer == 3
\* getF107Ap: the table holds MinTabDays..MaxTabDays days; the AP history
\* reaches three rows back, so a table has at least one row with three
\* rows before it
MinTabDays == 4
MaxTabDays == 5

(* --------------------------- Python values ----------------------------- *)
\* None, where a time is expected (the eTime default, the padding of map())
NoneT == -1
\* an argument that is not a datetime
NotADatetime == -2
\* None, where a satellite letter is expected (the padding of map())
NoneSat == "None"
\* str.find() returns -1 when the substring is absent
NotFound == -1
\* a name that holds "_v" followed by two characters that are not digits
BadVer == -3

isinstance_datetime(x) == x >= 0

\* dt.datetime(t.year, t.month, t.day): midnight of the day of t
Midnight(t) == (t \div DayLen) * DayLen

\* myTime.strftime("%Y%m%d"): the calendar day of t
DateOf(t) == t \div DayLen

(* ----------------------------- file names ------------------------------ *)
\* A remote file name: the satellite letter, the 8-digit date and either a
\* "_vNN" version suffix (ver a positive number), no "_v" at all (NotFound),
\* or "_v" followed by something else than two digits (BadVer).
FileName(s, date, ver) == [sat |-> s, date |-> date, ver |-> ver]

\* os.path.dirname('/tmp/sat/'), the first value of the variable d
TmpDirName == [sat |-> "/tmp/sat", date |-> NoneT, ver |-> NotFound]

\* len(d) for a value of the variable d: the scratch directory's name or a
\* remote file name, neither of which is the empty string
StrLen(n) == IF n.sat = "/tmp/sat" THEN 8
             ELSE 4 + 1 + 1 + 8 + (IF n.ver = NotFound THEN 0 ELSE 4) + 4

SatIds == {"a", "b", "c"}

Versions == 1..MaxVer

\* the names the server can list for  nlst('*<date>*')  in the directory of
\* satellite s: every name holds the date
NamesOf(s, date) == {FileName(s, date, v) : v \in Versions \cup {NotFound}}

Injective(q) == \A i, j \in 1..Len(q) : q[i] = q[j] => i = j

SeqsUpTo(S, n) == UNION {[1..k -> S] : k \in 0..n}

Listings(s, date) == {q \in SeqsUpTo(NamesOf(s, date), MaxList) : Injective(q)}

(* ----------------------------- day-files ------------------------------- *)
NonDecreasing(q) == \A i \in 1..(Len(q) - 1) : q[i] <= q[i + 1]

\* the time index cdf['epoch'] of the day-file of the day that starts at
\* midnight: samples of that day, in non-decreasing order
Epochs(midnight) ==
    {q \in SeqsUpTo(midnight..(midnight + DayLen - 1), MaxSamples) : NonDecreasing(q)}

(* ------------------------------ records -------------------------------- *)
\* efieldRec / PotRec: the ordering key and the satellite letter (the
\* numeric payload plays no part in the control flow)
Rec(t, s) == [time |-> t, sat |-> s]

(* ------------------------- version resolution -------------------------- *)
\* readEfieldFtp: d.find('_v'), the position of the version suffix
FindEfield(n) == IF n.ver = NotFound THEN NotFound ELSE 4 + 1 + 1 + 8

\* readPotFtp: d.find('_v??.cdf').  str.find looks for the literal text, the
\* question marks are no wildcards, and no listed name holds "_v??.cdf"
FindPot(n) == NotFound

Find(rd, n) == IF rd = "Efield" THEN FindEfield(n) ELSE FindPot(n)

\* int(d[ind+2:ind+4]): the two digits after "_v"
VerOf(n) == n.ver

\* int(d[ind+2:ind+4]) raises ValueError when the two characters after "_v"
\* are not digits
IntRaises(n) == n.ver = BadVer

\* the version loop reaches a name on which int() raises; nothing catches it
ResolveRaises(rd, dl) ==
    \E i \in 1..Len(dl) : Find(rd, dl[i]) # NotFound /\ IntRaises(dl[i])

\* the name the loop is at when int() raises
FirstRaising(rd, dl) ==
    dl[CHOOSE i \in 1..Len(dl) :
          /\ Find(rd, dl[i]) # NotFound /\ IntRaises(dl[i])
          /\ \A j \in 1..(i - 1) : ~(Find(rd, dl[j]) # NotFound /\ IntRaises(dl[j]))]

\* the loop  for i in range(len(dirlist)),  from index i (0-based) on, with
\* the running maxver and maxind; the result is the final maxind
RECURSIVE VersionLoop(_, _, _, _, _)
VersionLoop(rd, dl, i, maxver, maxind) ==
    IF i >= Len(dl) THEN maxind
    ELSE IF Find(rd, dl[i + 1]) # NotFound /\ VerOf(dl[i + 1]) > maxver
         THEN VersionLoop(rd, dl, i + 1, VerOf(dl[i + 1]), i)
         ELSE VersionLoop(rd, dl, i + 1, maxver, maxind)

\* maxver,maxind = -1,-1; the loop; if maxind == -1: maxind = 0
ResolveMaxind(rd, dl) ==
    LET m == VersionLoop(rd, dl, 0, -1, -1)
    IN  IF m = -1 THEN 0 ELSE m

(* --------------------------- time windowing ---------------------------- *)
\* readEfieldFtp: the linear scan  if sTime <= cdf['epoch'][i] < eTime
EfieldFilter(epoch, st, et) ==
    SelectSeq(epoch, LAMBDA t : st <= t /\ t < et)

\* bisect.bisect_left(a, x): lo, hi = 0, len(a); halve while lo < hi
RECURSIVE BisectLoop(_, _, _, _)
BisectLoop(a, x, lo, hi) ==
    IF lo < hi
    THEN LET mid == (lo + hi) \div 2
         IN  IF a[mid + 1] < x THEN BisectLoop(a, x, mid + 1, hi)
                               ELSE BisectLoop(a, x, lo, mid)
    ELSE lo

bisect_left(a, x) == BisectLoop(a, x, 0, Len(a))

\* the Python slice a[start:stop], 0 <= start: stop is clipped to len(a)
Slice(a, start, stop) ==
    SubSeq(a, start + 1, IF stop > Len(a) THEN Len(a) ELSE stop)

\* readPotFtp: epoch = cdf['epoch'][start_ind:stop_ind]
PotFilter(epoch, st, et) ==
    Slice(epoch, bisect_left(epoch, st), bisect_left(epoch, et))

Max(x, y) == IF x >= y THEN x ELSE y

\* readEfieldFtp: one efieldRec per selected sample, sat=s
EfieldRecords(epoch, st, et, s) ==
    LET sel == EfieldFilter(epoch, st, et)
    IN  [i \in 1..Len(sel) |-> Rec(sel[i], s)]

\* readPotFtp: map(lambda x,y,z,a: myData.append(PotRec(...)), epoch, vsvy,
\* vsvyAvg, s).  s is a one-letter string, so it is iterated as a sequence of
\* length one, and Python 2's map() runs to the longest argument, padding the
\* shorter ones with None.
PotRecords(epoch, st, et, s) ==
    LET sel == PotFilter(epoch, st, et)
        n   == Max(Len(sel), 1)
    IN  [i \in 1..n |-> Rec(IF i <= Len(sel) THEN sel[i] ELSE NoneT,
                            IF i <= 1 THEN s ELSE NoneSat)]

Records(rd, epoch, st, et, s) ==
    IF rd = "Efield" THEN EfieldRecords(epoch, st, et, s)
                     ELSE PotRecords(epoch, st, et, s)

\* history only: the records a day-file holds for the window [st, et)
InWindow(epoch, st, et, s) ==
    LET sel == SelectSeq(epoch, LAMBDA t : st <= t /\ t < et)
    IN  [i \in 1..Len(sel) |-> Rec(sel[i], s)]

(* ------------------------------ the sort ------------------------------- *)
\* myData.sort(key=lambda x: x.time) compares a datetime with None as soon
\* as both occur among the keys, and that comparison raises TypeError
SortRaises(q) ==
    /\ \E i \in 1..Len(q) : q[i].time = NoneT
    /\ \E i \in 1..Len(q) : q[i].time # NoneT

\* r put before the records of equal key: a sort that is not stable
RECURSIVE InsertBeforeEqual(_, _)
InsertBeforeEqual(q, r) ==
    IF q = <<>> THEN <<r>>
    ELSE IF q[Len(q)].time < r.time THEN Append(q, r)
         ELSE Append(InsertBeforeEqual(SubSeq(q, 1, Len(q) - 1), r), q[Len(q)])

\* r put into the sorted sequence q behind every record whose key is not
\* greater: list.sort is stable
RECURSIVE InsertByTime(_, _)
InsertByTime(q, r) ==
    IF q = <<>> THEN <<r>>
    ELSE IF q[Len(q)].time <= r.time THEN Append(q, r)
         ELSE Append(InsertByTime(SubSeq(q, 1, Len(q) - 1), r), q[Len(q)])

\* the list left as accumulated
Unsorted(q) == q

RECURSIVE SortByTime(_)
SortByTime(q) ==
    IF q = <<>> THEN <<>>
    ELSE InsertByTime(SortByTime(SubSeq(q, 1, Len(q) - 1)), q[Len(q)])

(* ------------------------------ getF107Ap ------------------------------ *)
\* a datetime of getF107Ap: the day number and the hour of the day; None
NoDatetime == [date |-> NoneT, hour |-> 0]

\* dictOut = {}
NoDict == [datetime |-> NoDatetime, f107 |-> NoneT, f107a |-> NoneT, ap |-> <<>>]

\* q[i] for a Python index i, -len(q) <= i < len(q)
PyIndex(q, i) == IF i >= 0 THEN q[i + 1] ELSE q[Len(q) + i + 1]

RECURSIVE Sum(_)
Sum(q) == IF q = <<>> THEN 0 ELSE q[1] + Sum(Tail(q))

\* numpy.mean(q) as the exact quotient sum / n
Mean(q) == [sum |-> Sum(q), n |-> Len(q)]

\* ttap = [ tap[dtInd][hrInd-i] for i in range(hrInd+1) ]
TtapToday(tp, dt, hr) == [i \in 1..(hr + 1) |-> PyIndex(PyIndex(tp, dt), hr - (i - 1))]

\* for id in xrange(3): for ih in xrange(8): ttap.append(tap[dtInd-id-1][-ih-1])
TtapBefore(tp, dt) ==
    [k \in 1..24 |-> LET id == (k - 1) \div 8
                         ih == (k - 1) % 8
                     IN  PyIndex(PyIndex(tp, dt - id - 1), -ih - 1)]

Ttap(tp, dt, hr) == TtapToday(tp, dt, hr) \o TtapBefore(tp, dt)

\* dictOut['ap']
ApOut(tp, tpd, dt, hr) ==
    LET ttap == Ttap(tp, dt, hr)
    IN  <<PyIndex(tpd, dt), ttap[1], ttap[2], ttap[3], ttap[4],
          Mean(Slice(ttap, 4, 13)), Mean(Slice(ttap, 13, 26))>>

\* tdate.index(x): the first position of x (0-based), NotFound for ValueError
IndexOf(q, x) ==
    IF \E i \in 1..Len(q) : q[i] = x
    THEN (CHOOSE i \in 1..Len(q) : q[i] = x /\ \A j \in 1..(i - 1) : q[j] # x) - 1
    ELSE NotFound

\* the parsed table: n consecutive days from day 1 on
TabDates(n) == [i \in 1..n |-> i]

\* the 3-hour AP columns of a table of n days: one slot holds 1, the others 0
TabAp(n) ==
    {[i \in 1..n |-> [j \in 1..8 |-> IF i = h[1] /\ j = h[2] THEN 1 ELSE 0]] :
        h \in (1..n) \X (1..8)}

\* the daily F10.7 column: one day holds 1, the others 0
TabF107(n) == {[i \in 1..n |-> IF i = h THEN 1 ELSE 0] : h \in 1..n}

\* the daily AP column and the 81-day average column hold the row number
TabRow(n) == [i \in 1..n |-> i]

\* the argument mydatetime: None, or a day from the day before the table to
\* the day after it, at any hour
Datetimes(n) ==
    {NoDatetime} \cup {[date |-> dd, hour |-> h] : dd \in 0..(n + 1), h \in 0..23}

(* ------------------------------- state --------------------------------- *)
VARIABLES
    reader,        \* "Efield": readEfieldFtp is running, "Pot": readPotFtp
    sTime,         \* the argument sTime
    eTime,         \* the argument eTime, later the local eTime
    sat,           \* the argument sat as a sequence of identifiers
    satIsList,     \* isinstance(sat, list)
    pc,            \* the statement the call is at, or ended at
    outcome,       \* "running", "None" or "list" (returned), "raised"
    exc,           \* the exception that left the call, when outcome = "raised"
    retval,        \* the returned list, when outcome = "list"
    ftpOpen,       \* the FTP session is connected and not closed
    tmpDirExists,  \* /tmp/sat exists
    scratch,       \* the files in /tmp/sat
    myData,        \* the list myData
    myTime,        \* the day cursor myTime
    si,            \* the position of the loop  for s in sat  (1-based)
    dirlist,       \* the list dirlist
    d,             \* the variable d
    maxind,        \* the variable maxind
    netLog,        \* history: the FTP operations attempted, with their results
    expect,        \* history: the samples inside the window of the files parsed
    tdate,         \* getF107Ap: the list tdate
    tap,           \* getF107Ap: the list tap, eight 3-hour AP values a day
    tapd,          \* getF107Ap: the list tapd
    tf107,         \* getF107Ap: the list tf107
    tf107a,        \* getF107Ap: the list tf107a
    mydatetime,    \* getF107Ap: the argument mydatetime
    dictOut,       \* getF107Ap: the dictionary dictOut
    dtInd,         \* getF107Ap: the variable dtInd
    hrInd,         \* getF107Ap: the variable hrInd
    fpc,           \* getF107Ap: the statement the call is at, or ended at
    fout,          \* getF107Ap: "running", "None" or "dict" (returned), "raised"
    peerPc,        \* a second call of a reader: the statement it is at
    peerFile       \* the second call: its tmpDir+dirlist[maxind]

vars == <<reader, sTime, eTime, sat, satIsList, pc, outcome, exc, retval, ftpOpen,
          tmpDirExists, scratch, myData, myTime, si, dirlist, d, maxind, netLog,
          expect, tdate, tap, tapd, tf107, tf107a, mydatetime, dictOut, dtInd,
          hrInd, fpc, fout, peerPc, peerFile>>

\* the state of getF107Ap
msisVars == <<tdate, tap, tapd, tf107, tf107a, mydatetime, dictOut, dtInd, hrInd,
              fpc, fout>>

\* the state of a second call of a reader, apart from the shared /tmp/sat
peerVars == <<peerPc, peerFile>>

\* the state of the two readers
readerVars == <<reader, sTime, eTime, sat, satIsList, pc, outcome, exc, retval,
                ftpOpen, tmpDirExists, scratch, myData, myTime, si, dirlist, d,
                maxind, netLog, expect, peerVars>>

\* no second call
PeerIdle ==
    /\ peerPc = "-"
    /\ peerFile = TmpDirName

\* no call of getF107Ap
MsisIdle ==
    /\ tdate = <<>>
    /\ tap = <<>>
    /\ tapd = <<>>
    /\ tf107 = <<>>
    /\ tf107a = <<>>
    /\ mydatetime = NoDatetime
    /\ dictOut = NoDict
    /\ dtInd = -1
    /\ hrInd = -1
    /\ fpc = "-"
    /\ fout = "-"

\* no call of a reader
ReaderIdle ==
    /\ PeerIdle
    /\ reader = "-"
    /\ sTime = NoneT
    /\ eTime = NoneT
    /\ sat = <<>>
    /\ satIsList = TRUE
    /\ pc = "-"
    /\ outcome = "-"
    /\ exc = "-"
    /\ retval = <<>>
    /\ ftpOpen = FALSE
    /\ tmpDirExists = FALSE
    /\ scratch = {}
    /\ myData = <<>>
    /\ myTime = NoneT
    /\ si = 0
    /\ dirlist = <<>>
    /\ d = TmpDirName
    /\ maxind = -1
    /\ netLog = <<>>
    /\ expect = <<>>

\* the argument sat: one identifier, or a list of identifiers
SatLists == {<<>>, <<"a">>, <<"c">>, <<"a", "b">>, <<"b", "a">>}

SatArgs == {[list |-> FALSE, ids |-> <<x>>] : x \in SatIds}
               \cup {[list |-> TRUE, ids |-> q] : q \in SatLists}

Init ==
    /\ reader \in {"Efield", "Pot"}
    /\ sTime \in {NotADatetime} \cup 0..(DayLen - 1)
    /\ eTime \in {NoneT, NotADatetime} \cup 0..MaxTime
    /\ \E a \in SatArgs : sat = a.ids /\ satIsList = a.list
    /\ pc = "args"
    /\ outcome = "running"
    /\ exc = "-"
    /\ retval = <<>>
    /\ ftpOpen = FALSE
    /\ tmpDirExists = FALSE
    /\ scratch = {}
    /\ myData = <<>>
    /\ myTime = NoneT
    /\ si = 0
    /\ dirlist = <<>>
    /\ d = TmpDirName
    /\ maxind = -1
    /\ netLog = <<>>
    /\ expect = <<>>
    /\ MsisIdle
    /\ PeerIdle

Running(at) == outcome = "running" /\ pc = at

\* return None
ReturnNone == outcome' = "None" /\ UNCHANGED <<pc, exc, retval>>

\* an exception nothing catches leaves the call
Raise(e) == outcome' = "raised" /\ exc' = e /\ UNCHANGED <<pc, retval>>

Goto(at) == pc' = at /\ UNCHANGED <<outcome, exc, retval>>

Op(name, res) == [op |-> name, sat |-> "-", day |-> NoneT, res |-> res]

SlotOp(name, res) == [op |-> name, sat |-> sat[si], day |-> myTime, res |-> res]

\* what no step of a reader changes: its arguments reader, sTime and sat, the
\* state of getF107Ap and the private state of a second call
args == <<reader, sTime, sat, msisVars, peerVars>>

(* ------------------------------ actions -------------------------------- *)
\* the assertions without  assert(eTime >= sTime)
CheckArgsNoOrder ==
    /\ Running("args")
    /\ LET e1 == IF eTime = NoneT /\ isinstance_datetime(sTime)
                 THEN sTime + DayLen ELSE eTime
       IN  IF /\ isinstance_datetime(sTime)
              /\ isinstance_datetime(e1)
              /\ (~satIsList => sat[1] = "a" \/ sat[1] = "b")
           THEN /\ eTime' = e1
                /\ satIsList' = TRUE
                /\ Goto("connect")
           ELSE /\ Raise("AssertionError")
                /\ UNCHANGED <<eTime, satIsList>>
    /\ UNCHANGED <<args, ftpOpen, tmpDirExists, scratch, myData, myTime, si,
                   dirlist, d, maxind, netLog, expect>>

\* the assertions on the arguments, and the default of eTime
CheckArgs ==
    /\ Running("args")
    /\ LET e1 == IF eTime = NoneT /\ isinstance_datetime(sTime)
                 THEN sTime + DayLen ELSE eTime
       IN  IF /\ isinstance_datetime(sTime)
              /\ isinstance_datetime(e1)
              /\ e1 >= sTime
              /\ (~satIsList => sat[1] = "a" \/ sat[1] = "b")
           THEN /\ eTime' = e1
                /\ satIsList' = TRUE
                /\ Goto("connect")
           ELSE /\ Raise("AssertionError")
                /\ UNCHANGED <<eTime, satIsList>>
    /\ UNCHANGED <<args, ftpOpen, tmpDirExists, scratch, myData, myTime, si,
                   dirlist, d, maxind, netLog, expect>>

\* ftp = FTP('cdaweb.gsfc.nasa.gov')
Connect ==
    /\ Running("connect")
    /\ \E ok \in BOOLEAN :
         /\ netLog' = Append(netLog, Op("connect", IF ok THEN "ok" ELSE "error"))
         /\ ftpOpen' = ok
         /\ IF ok THEN Goto("login") ELSE ReturnNone
    /\ UNCHANGED <<args, eTime, satIsList, tmpDirExists, scratch, myData, myTime,
                   si, dirlist, d, maxind, expect>>

\* a login failure that is printed and ignored
LoginIgnore ==
    /\ Running("login")
    /\ \E ok \in BOOLEAN :
         /\ netLog' = Append(netLog, Op("login", IF ok THEN "ok" ELSE "error"))
         /\ Goto("mkdir")
    /\ UNCHANGED <<args, eTime, satIsList, ftpOpen, tmpDirExists, scratch, myData,
                   myTime, si, dirlist, d, maxind, expect>>

\* l = ftp.login()
Login ==
    /\ Running("login")
    /\ \E ok \in BOOLEAN :
         /\ netLog' = Append(netLog, Op("login", IF ok THEN "ok" ELSE "error"))
         /\ IF ok THEN Goto("mkdir") ELSE ReturnNone
    /\ UNCHANGED <<args, eTime, satIsList, ftpOpen, tmpDirExists, scratch, myData,
                   myTime, si, dirlist, d, maxind, expect>>

\* the scratch directory, myData = [] and the day cursor at midnight of sTime
MakeTmpDir ==
    /\ Running("mkdir")
    /\ d' = TmpDirName
    /\ \E ok \in BOOLEAN :
         IF ok
         THEN /\ tmpDirExists' = TRUE
              /\ myData' = <<>>
              /\ myTime' = Midnight(sTime)
              /\ Goto("while")
         ELSE /\ Raise("OSError")
              /\ UNCHANGED <<tmpDirExists, myData, myTime>>
    /\ UNCHANGED <<args, eTime, satIsList, ftpOpen, scratch, si, dirlist, maxind,
                   netLog, expect>>

\* while(myTime <= eTime)
WhileTestInclusive ==
    /\ Running("while")
    /\ IF myTime <= eTime THEN si' = 1 /\ Goto("for")
                          ELSE si' = si /\ Goto("quit")
    /\ UNCHANGED <<args, eTime, satIsList, ftpOpen, tmpDirExists, scratch, myData,
                   myTime, dirlist, d, maxind, netLog, expect>>

\* while(myTime < eTime)
WhileTest ==
    /\ Running("while")
    /\ IF myTime < eTime THEN si' = 1 /\ Goto("for")
                         ELSE si' = si /\ Goto("quit")
    /\ UNCHANGED <<args, eTime, satIsList, ftpOpen, tmpDirExists, scratch, myData,
                   myTime, dirlist, d, maxind, netLog, expect>>

\* a loop body that lists without changing directory
ForNextNoCwd ==
    /\ Running("for")
    /\ IF si <= Len(sat) THEN Goto("nlst") ELSE Goto("rm")
    /\ UNCHANGED <<args, eTime, satIsList, ftpOpen, tmpDirExists, scratch, myData,
                   myTime, si, dirlist, d, maxind, netLog, expect>>

\* for s in sat
ForNext ==
    /\ Running("for")
    /\ IF si <= Len(sat) THEN Goto("cwd") ELSE Goto("rm")
    /\ UNCHANGED <<args, eTime, satIsList, ftpOpen, tmpDirExists, scratch, myData,
                   myTime, si, dirlist, d, maxind, netLog, expect>>

\* the end of the body of the for loop, and the continue statement
NextSat == si' = si + 1 /\ Goto("for")

\* a directory-change failure treated like a transfer failure
CwdContinue ==
    /\ Running("cwd")
    /\ \E ok \in BOOLEAN :
         /\ netLog' = Append(netLog, SlotOp("cwd", IF ok THEN "ok" ELSE "error"))
         /\ IF ok THEN si' = si /\ Goto("nlst") ELSE NextSat
    /\ UNCHANGED <<args, eTime, satIsList, ftpOpen, tmpDirExists, scratch, myData,
                   myTime, dirlist, d, maxind, expect>>

\* ftp.cwd(...)
Cwd ==
    /\ Running("cwd")
    /\ \E ok \in BOOLEAN :
         /\ netLog' = Append(netLog, SlotOp("cwd", IF ok THEN "ok" ELSE "error"))
         /\ IF ok THEN Goto("nlst") ELSE ReturnNone
    /\ UNCHANGED <<args, eTime, satIsList, ftpOpen, tmpDirExists, scratch, myData,
                   myTime, si, dirlist, d, maxind, expect>>

\* dirlist = []; dirlist = ftp.nlst('*%s*' % myTime.strftime("%Y%m%d"))
Nlst ==
    /\ Running("nlst")
    /\ \/ \E l \in Listings(sat[si], DateOf(myTime)) :
            /\ dirlist' = l
            /\ netLog' = Append(netLog, SlotOp("nlst", "ok"))
       \/ /\ dirlist' = <<>>
          /\ netLog' = Append(netLog, SlotOp("nlst", "error"))
    /\ Goto("resolve")
    /\ UNCHANGED <<args, eTime, satIsList, ftpOpen, tmpDirExists, scratch, myData,
                   myTime, si, d, maxind, expect>>

\* if len(d) > 0: the version loop, which leaves the last name in d, or the
\* name on which int() raised
ResolveVersion ==
    /\ Running("resolve")
    /\ IF StrLen(d) > 0
       THEN IF ResolveRaises(reader, dirlist)
            THEN /\ d' = FirstRaising(reader, dirlist)
                 /\ Raise("ValueError")
                 /\ UNCHANGED <<maxind, si>>
            ELSE /\ maxind' = ResolveMaxind(reader, dirlist)
                 /\ d' = IF dirlist = <<>> THEN d ELSE dirlist[Len(dirlist)]
                 /\ Goto("retr")
                 /\ si' = si
       ELSE /\ UNCHANGED <<maxind, d>>
            /\ NextSat
    /\ UNCHANGED <<args, eTime, satIsList, ftpOpen, tmpDirExists, scratch, myData,
                   myTime, dirlist, netLog, expect>>

\* a transfer failure treated like a directory-change failure
RetrieveAbort ==
    /\ Running("retr")
    /\ IF maxind + 1 > Len(dirlist)
       THEN /\ Raise("IndexError")
            /\ UNCHANGED <<scratch, netLog, si>>
       ELSE /\ scratch' = scratch \cup {dirlist[maxind + 1]}
            /\ si' = si
            /\ \E ok \in BOOLEAN :
                 /\ netLog' = Append(netLog, SlotOp("retr", IF ok THEN "ok" ELSE "error"))
                 /\ IF ok THEN Goto("parse") ELSE ReturnNone
    /\ UNCHANGED <<args, eTime, satIsList, ftpOpen, tmpDirExists, myData, myTime,
                   dirlist, d, maxind, expect>>

\* filep = open(tmpDir+dirlist[maxind], 'wb'); ftp.retrbinary(...); and the
\* except clause, which prints dirlist[maxind] before it continues
Retrieve ==
    /\ Running("retr")
    /\ IF maxind + 1 > Len(dirlist)
       THEN /\ Raise("IndexError")
            /\ UNCHANGED <<scratch, netLog, si>>
       ELSE /\ scratch' = scratch \cup {dirlist[maxind + 1]}
            /\ \E ok \in BOOLEAN :
                 /\ netLog' = Append(netLog, SlotOp("retr", IF ok THEN "ok" ELSE "error"))
                 /\ IF ok THEN si' = si /\ Goto("parse") ELSE NextSat
    /\ UNCHANGED <<args, eTime, satIsList, ftpOpen, tmpDirExists, myData, myTime,
                   dirlist, d, maxind, expect>>

\* cdf = pycdf.CDF(...), the selection of the samples and the appends
ParseFile ==
    /\ Running("parse")
    /\ \/ /\ Raise("CDFError")
          /\ UNCHANGED <<myData, expect, si>>
       \/ \E epoch \in Epochs(myTime) :
            /\ myData' = myData \o Records(reader, epoch, sTime, eTime, sat[si])
            /\ expect' = expect \o InWindow(epoch, sTime, eTime, sat[si])
            /\ NextSat
    /\ UNCHANGED <<args, eTime, satIsList, ftpOpen, tmpDirExists, scratch, myTime,
                   dirlist, d, maxind, netLog>>

\* an end of day that does not move the day cursor
EndOfDayNoAdvance ==
    /\ Running("rm")
    /\ scratch' = {n \in scratch : n.date # DateOf(myTime)}
    /\ myTime' = myTime
    /\ Goto("while")
    /\ UNCHANGED <<args, eTime, satIsList, ftpOpen, tmpDirExists, myData, si,
                   dirlist, d, maxind, netLog, expect>>

\* an end of day that deletes nothing
EndOfDayKeepFiles ==
    /\ Running("rm")
    /\ scratch' = scratch
    /\ myTime' = myTime + DayLen
    /\ Goto("while")
    /\ UNCHANGED <<args, eTime, satIsList, ftpOpen, tmpDirExists, myData, si,
                   dirlist, d, maxind, netLog, expect>>

\* os.system('rm /tmp/sat/*<date>*'); myTime += dt.timedelta(days=1)
EndOfDay ==
    /\ Running("rm")
    /\ scratch' = {n \in scratch : n.date # DateOf(myTime)}
    /\ myTime' = myTime + DayLen
    /\ Goto("while")
    /\ UNCHANGED <<args, eTime, satIsList, ftpOpen, tmpDirExists, myData, si,
                   dirlist, d, maxind, netLog, expect>>

\* ftp.quit() outside a try block
QuitRaises ==
    /\ Running("quit")
    /\ \E ok \in BOOLEAN :
         /\ netLog' = Append(netLog, Op("quit", IF ok THEN "ok" ELSE "error"))
         /\ ftpOpen' = ~ok
         /\ IF ok THEN Goto("return") ELSE Raise("FTPError")
    /\ UNCHANGED <<args, eTime, satIsList, tmpDirExists, scratch, myData, myTime,
                   si, dirlist, d, maxind, expect>>

\* ftp.quit(), whose failure is printed and dropped
Quit ==
    /\ Running("quit")
    /\ \E ok \in BOOLEAN :
         /\ netLog' = Append(netLog, Op("quit", IF ok THEN "ok" ELSE "error"))
         /\ ftpOpen' = ~ok
    /\ Goto("return")
    /\ UNCHANGED <<args, eTime, satIsList, tmpDirExists, scratch, myData, myTime,
                   si, dirlist, d, maxind, expect>>

\* myData sorted and returned whatever its length
ReturnAlwaysList ==
    /\ Running("return")
    /\ IF SortRaises(myData)
       THEN Raise("TypeError") /\ UNCHANGED myData
       ELSE /\ myData' = SortByTime(myData)
            /\ outcome' = "list"
            /\ retval' = SortByTime(myData)
            /\ UNCHANGED <<pc, exc>>
    /\ UNCHANGED <<args, eTime, satIsList, ftpOpen, tmpDirExists, scratch, myTime,
                   si, dirlist, d, maxind, netLog, expect>>

\* if len(myData) > 0: sort and return myData, else return None
Return ==
    /\ Running("return")
    /\ IF Len(myData) > 0
       THEN IF SortRaises(myData)
            THEN Raise("TypeError") /\ UNCHANGED myData
            ELSE /\ myData' = SortByTime(myData)
                 /\ outcome' = "list"
                 /\ retval' = SortByTime(myData)
                 /\ UNCHANGED <<pc, exc>>
       ELSE ReturnNone /\ UNCHANGED myData
    /\ UNCHANGED <<args, eTime, satIsList, ftpOpen, tmpDirExists, scratch, myTime,
                   si, dirlist, d, maxind, netLog, expect>>

Next ==
    \/ CheckArgs
    \/ Connect
    \/ Login
    \/ MakeTmpDir
    \/ WhileTest
    \/ ForNext
    \/ Cwd
    \/ Nlst
    \/ ResolveVersion
    \/ Retrieve
    \/ ParseFile
    \/ EndOfDay
    \/ Quit
    \/ Return

Spec == Init /\ [][Next]_vars

\* the requests of no satellite or of satellite a with the default eTime:
\* one day from midnight, or two days from inside a day
InitL ==
    /\ Init
    /\ isinstance_datetime(sTime)
    /\ eTime = NoneT
    /\ satIsList
    /\ sat \in {<<>>, <<"a">>}

\* every statement the call is at returns or raises: the call keeps stepping
SpecLive == InitL /\ [][Next]_vars /\ WF_vars(Next)

(* ------------------- version resolution on its own --------------------- *)
\* the names a listing of the day's directory can hold: versioned names,
\* a name without "_v", a name with an unreadable version
CandidateNames(s, date) ==
    {FileName(s, date, v) : v \in (1..MaxCandVer) \cup {NotFound, BadVer}}

CandidateListings(s, date) ==
    {q \in SeqsUpTo(CandidateNames(s, date), MaxCand) : Injective(q)}

\* a call that has connected, logged in, made the scratch directory, entered
\* the first day and the first satellite, and has just got its listing
InitR ==
    /\ reader \in {"Efield", "Pot"}
    /\ sTime = 0
    /\ eTime = DayLen
    /\ \E s \in {"a", "b"} : sat = <<s>>
    /\ satIsList = TRUE
    /\ pc = "resolve"
    /\ outcome = "running"
    /\ exc = "-"
    /\ retval = <<>>
    /\ ftpOpen = TRUE
    /\ tmpDirExists = TRUE
    /\ scratch = {}
    /\ myData = <<>>
    /\ myTime = 0
    /\ si = 1
    /\ dirlist \in CandidateListings(sat[1], DateOf(0))
    /\ d = TmpDirName
    /\ maxind = -1
    /\ netLog = <<Op("connect", "ok"), Op("login", "ok"),
                  [op |-> "cwd", sat |-> sat[1], day |-> 0, res |-> "ok"],
                  [op |-> "nlst", sat |-> sat[1], day |-> 0, res |-> "ok"]>>
    /\ expect = <<>>
    /\ MsisIdle
    /\ PeerIdle

\* the version loop and the download of the name it chose
NextR ==
    \/ ResolveVersion
    \/ Retrieve

SpecResolve == InitR /\ [][NextR]_vars

(* ----------------------- two requests at once -------------------------- *)
\* A second call of readEfieldFtp or readPotFtp runs beside the first and
\* shares /tmp/sat with it.  It is followed through one (day, satellite)
\* slot, from the download of the file it resolved to the rm at the end of
\* its day.

\* the file the second call resolved: a remote name of a or b on day 0 or 1
PeerFiles ==
    {FileName(s, dd, v) : s \in {"a", "b"}, dd \in 0..1, v \in Versions \cup {NotFound}}

\* the one-day request of one satellite, beside a second call that is about
\* to download; the second call has made /tmp/sat
InitS ==
    /\ reader \in {"Efield", "Pot"}
    /\ sTime = 0
    /\ eTime = NoneT
    /\ \E s \in {"a", "b"} : sat = <<s>>
    /\ satIsList = TRUE
    /\ pc = "args"
    /\ outcome = "running"
    /\ exc = "-"
    /\ retval = <<>>
    /\ ftpOpen = FALSE
    /\ tmpDirExists = TRUE
    /\ scratch = {}
    /\ myData = <<>>
    /\ myTime = NoneT
    /\ si = 0
    /\ dirlist = <<>>
    /\ d = TmpDirName
    /\ maxind = -1
    /\ netLog = <<>>
    /\ expect = <<>>
    /\ MsisIdle
    /\ peerPc = "retr"
    /\ peerFile \in PeerFiles

peerUnchanged ==
    <<reader, sTime, eTime, sat, satIsList, pc, outcome, exc, retval, ftpOpen,
      tmpDirExists, myData, myTime, si, dirlist, d, maxind, netLog, expect,
      msisVars, peerFile>>

\* the second call: filep = open(tmpDir+dirlist[maxind], 'wb') and the
\* transfer, which fails or not
PeerRetrieve ==
    /\ peerPc = "retr"
    /\ scratch' = scratch \cup {peerFile}
    /\ \E ok \in BOOLEAN : peerPc' = IF ok THEN "parse" ELSE "rm"
    /\ UNCHANGED peerUnchanged

\* the second call: pycdf.CDF(tmpDir+dirlist[maxind]), which raises when the
\* file is not there
PeerParseFile ==
    /\ peerPc = "parse"
    /\ peerPc' = IF peerFile \in scratch THEN "rm" ELSE "raised"
    /\ UNCHANGED <<scratch, peerUnchanged>>

\* the second call: os.system('rm /tmp/sat/*<date>*')
PeerEndOfDay ==
    /\ peerPc = "rm"
    /\ scratch' = {n \in scratch : n.date # peerFile.date}
    /\ peerPc' = "done"
    /\ UNCHANGED peerUnchanged

NextS ==
    \/ Next
    \/ PeerRetrieve
    \/ PeerParseFile
    \/ PeerEndOfDay

SpecShared == InitS /\ [][NextS]_vars

(* ------------------------------ getF107Ap ------------------------------ *)
\* a call of getF107Ap, the table file read into tdate, tap, tapd, tf107 and
\* tf107a
InitF ==
    /\ ReaderIdle
    /\ \E n \in MinTabDays..MaxTabDays :
         /\ tdate = TabDates(n)
         /\ tap \in TabAp(n)
         /\ tapd = TabRow(n)
         /\ tf107 \in TabF107(n)
         /\ tf107a = TabRow(n)
         /\ mydatetime \in Datetimes(n)
    /\ dictOut = NoDict
    /\ dtInd = -1
    /\ hrInd = -1
    /\ fpc = "date"
    /\ fout = "running"

\* Get required datetime: the last tabulated day for None, mydatetime when
\* its day is not after the table, else "Invalid date" and return
F107GetDatetime ==
    /\ fout = "running" /\ fpc = "date"
    /\ IF mydatetime = NoDatetime
       THEN /\ dictOut' = [dictOut EXCEPT !.datetime =
                              [date |-> PyIndex(tdate, -1), hour |-> 0]]
            /\ fpc' = "index"
            /\ fout' = fout
       ELSE IF mydatetime.date <= PyIndex(tdate, -1)
            THEN /\ dictOut' = [dictOut EXCEPT !.datetime = mydatetime]
                 /\ fpc' = "index"
                 /\ fout' = fout
            ELSE /\ fout' = "None"
                 /\ UNCHANGED <<dictOut, fpc>>
    /\ UNCHANGED <<readerVars, tdate, tap, tapd, tf107, tf107a, mydatetime, dtInd,
                   hrInd>>

\* dtInd = tdate.index(...), hrInd = int(floor(hour/3.))
F107FindEntry ==
    /\ fout = "running" /\ fpc = "index"
    /\ LET i == IndexOf(tdate, dictOut.datetime.date)
       IN  IF i = NotFound
           THEN /\ fout' = "raised"
                /\ UNCHANGED <<dtInd, hrInd, fpc>>
           ELSE /\ dtInd' = i
                /\ hrInd' = dictOut.datetime.hour \div 3
                /\ fpc' = "output"
                /\ fout' = fout
    /\ UNCHANGED <<readerVars, tdate, tap, tapd, tf107, tf107a, mydatetime, dictOut>>

\* f107 output, AP output, return dictOut
F107Output ==
    /\ fout = "running" /\ fpc = "output"
    /\ dictOut' = [dictOut EXCEPT !.f107 = PyIndex(tf107, dtInd - 1),
                                  !.f107a = PyIndex(tf107a, dtInd),
                                  !.ap = ApOut(tap, tapd, dtInd, hrInd)]
    /\ fout' = "dict"
    /\ UNCHANGED <<readerVars, tdate, tap, tapd, tf107, tf107a, mydatetime, dtInd,
                   hrInd, fpc>>

NextF ==
    \/ F107GetDatetime
    \/ F107FindEntry
    \/ F107Output

SpecF107 == InitF /\ [][NextF]_vars

(* ------------------------------ claims --------------------------------- *)
Ended == outcome # "running"

\* x <= y as Python 2 evaluates it for two keys that the sort may compare
TimeLE(x, y) == IF x = NoneT \/ y = NoneT THEN x = y ELSE x <= y

Failed(name) == \E i \in 1..Len(netLog) : netLog[i].op = name /\ netLog[i].res = "error"

Requested == {sat[i] : i \in 1..Len(sat)}

CountTime(q, t) == Cardinality({i \in 1..Len(q) : q[i].time = t})

\* the days the loop has to visit: the midnights from sTime's day on that lie before eTime
DaysOfRequest == {m \in 0..MaxTime + DayLen : m >= Midnight(sTime) /\ m < eTime /\ m = Midnight(m)}

Visited(s, m) == \E i \in 1..Len(netLog) :
                    netLog[i].op = "cwd" /\ netLog[i].sat = s /\ netLog[i].day = m

\* C1: every returned list is ordered by time: each record's time is less
\* than or equal to the time of the record after it.
C1_SortedByTime ==
    outcome = "list" =>
        \A i \in 1..(Len(retval) - 1) : TimeLE(retval[i].time, retval[i + 1].time)

\* a list is returned whose records were accumulated out of time order
C1_Witness ==
    /\ outcome = "list"
    /\ \E i \in 1..(Len(expect) - 1) : expect[i].time > expect[i + 1].time
    /\ \E i, j \in 1..Len(retval) : retval[i].sat # retval[j].sat

\* C2: every record of a returned list has a time t with sTime <= t < eTime;
\* none has a time outside the window or an unset time (the day-files' time
\* indexes are non-decreasing).
C2_InWindow ==
    outcome = "list" =>
        \A i \in 1..Len(retval) :
            /\ retval[i].time # NoneT
            /\ sTime <= retval[i].time
            /\ retval[i].time < eTime

\* C3: every record of a returned list carries a satellite identifier that
\* the caller requested, the first record of a day-file and the later ones.
C3_SatRequested ==
    outcome = "list" => \A i \in 1..Len(retval) : retval[i].sat \in Requested

\* C4: a satellite argument holding an identifier other than 'a' or 'b', alone
\* or in a list, is rejected before any network activity.
C4_InvalidSatRejected ==
    (\E i \in 1..Len(sat) : sat[i] \notin {"a", "b"}) =>
        /\ netLog = <<>>
        /\ pc = "args"
        /\ outcome \in {"running", "raised"}

\* C5: a slot whose listing is empty (nothing matches, or the listing call
\* fails) lets no exception escape the request, which goes on with the next
\* satellite and day.
C5_EmptyListingContained ==
    (pc \in {"resolve", "retr"} /\ dirlist = <<>>) => outcome = "running"

\* C6: a parse failure of one downloaded day-file stays in its slot: the
\* request is not aborted by it.
C6_ParseFailureContained ==
    pc = "parse" => outcome = "running"

\* C7: a transfer failure in one slot does not abort the request: the call
\* goes on with the next satellite with myData untouched, every slot of the
\* request is visited before the loop ends, and a returned list holds the
\* records of every slot that was parsed.
C7_TransferFailureContained ==
    [][/\ (netLog' # netLog /\ netLog'[Len(netLog')].op = "retr"
                           /\ netLog'[Len(netLog')].res = "error")
            => (outcome' = "running" /\ pc' = "for" /\ si' = si + 1 /\ myData' = myData)
       /\ (Failed("retr")' /\ pc' = "return")
            => \A m \in DaysOfRequest' : \A s \in Requested' : Visited(s, m)'
       /\ (Failed("retr")' /\ outcome' = "list")
            => \A i \in 1..Len(expect') :
                  CountTime(retval', expect'[i].time) >= CountTime(expect', expect'[i].time)
      ]_vars

\* a list is returned although a transfer failed, with a record of a slot
\* later than the failed one
C7_Witness ==
    /\ outcome = "list"
    /\ \E i \in 1..Len(netLog) :
          /\ netLog[i].op = "retr" /\ netLog[i].res = "error"
          /\ \E j \in 1..Len(retval) :
                retval[j].time # NoneT /\ Midnight(retval[j].time) > netLog[i].day

\* C8: a directory-change failure in any slot ends the request with None,
\* never with a partial list, whatever had been accumulated before.
C8_CwdFailureAborts ==
    Failed("cwd") => (outcome = "None" /\ pc = "cwd")

\* a directory change fails after records of an earlier slot were accumulated
C8_Witness ==
    Failed("cwd") /\ myData # <<>> /\ outcome = "None"

\* C9: once connected, the session is closed before the request ends, on
\* every exit path.
C9_SessionReleased ==
    Ended => ~ftpOpen

\* C10: after any ingestion attempt of a slot has finished, and whenever the
\* request ends, no scratch file of the request is left in the scratch
\* directory.
C10_NoScratchLeft ==
    ((pc = "for" /\ si > 1) \/ Ended) => scratch = {}

\* the environment did what was asked of it: no FTP operation failed, the
\* scratch directory could be made and the downloaded file could be parsed
NoFault ==
    /\ \A i \in 1..Len(netLog) : netLog[i].res = "ok"
    /\ exc \notin {"OSError", "CDFError"}

\* C11: a request with eTime equal to sTime returns None without raising,
\* at midnight or not, with day-files on the server or without.
C11_EmptyWindowNone ==
    (Ended /\ pc # "args" /\ eTime = sTime /\ NoFault) => outcome = "None"

\* C12: the call returns a non-empty list or None, never an empty list, and
\* None exactly when nothing was accumulated or the request was aborted.
C12_ListOrNone ==
    /\ outcome = "list" => (Len(retval) > 0 /\ pc = "return")
    /\ (outcome = "None" /\ pc = "return") => myData = <<>>
    /\ (Ended /\ pc = "return" /\ myData = <<>>) => outcome = "None"
    /\ (outcome = "None" /\ pc # "return") => pc \in {"connect", "login", "cwd"}

\* the loop ended after a file was parsed, and nothing had been accumulated
C12_Witness ==
    /\ outcome = "None"
    /\ pc = "return"
    /\ \E i \in 1..Len(netLog) : netLog[i].op = "retr" /\ netLog[i].res = "ok"

TimesOf(q) == {q[i].time : i \in 1..Len(q)}

\* C15: the records made from one day-file are exactly its samples with
\* sTime <= t < eTime, for the linear scan and for the bisection alike.
C15_ExactlyTheWindow ==
    /\ Len(myData) = Len(expect)
    /\ \A t \in TimesOf(myData) \cup TimesOf(expect) :
          CountTime(myData, t) = CountTime(expect, t)

NetworkAfterOpen ==
    \E i \in 1..Len(netLog) : netLog[i].op \in {"cwd", "nlst", "retr"}

\* C16: when the connection or the anonymous login fails, the request
\* returns None, and no directory change, listing, retrieval or scratch-file
\* write follows.
C16_OpenFailureAborts ==
    (Failed("connect") \/ Failed("login")) =>
        /\ outcome = "None"
        /\ ~NetworkAfterOpen
        /\ scratch = {}
        /\ netLog[Len(netLog)].res = "error"

\* the login was refused
C16_Witness ==
    Failed("login") /\ outcome = "None" /\ pc = "login"

\* C17: a failure of ftp.quit() is not raised to the caller: the call goes on
\* to its return with myData untouched, and returns what myData alone decides.
C17_QuitFailureSwallowed ==
    [][/\ pc = "quit" => (outcome' = "running" /\ pc' = "return" /\ myData' = myData)
       /\ (pc = "return" /\ Failed("quit") /\ Ended')
            => IF myData = <<>> THEN outcome' = "None"
               ELSE IF SortRaises(myData) THEN outcome' = "raised" /\ exc' = "TypeError"
               ELSE outcome' = "list" /\ retval' = SortByTime(myData)
      ]_vars

\* a sorted list is returned after ftp.quit() failed
C17_Witness ==
    Failed("quit") /\ outcome = "list" /\ Len(retval) >= 2

WithTime(q, t) == SelectSeq(q, LAMBDA r : r.time = t)

SatPos(s) == CHOOSE i \in 1..Len(sat) : sat[i] = s

\* C18: the final sort is stable: records of equal time are returned in the
\* order of their accumulation, so of two records of equal time the one of
\* the satellite listed earlier in the request comes first (records of equal
\* time are samples of one day).
C18_StableSort ==
    [][(pc = "return" /\ outcome' = "list") =>
          /\ \A t \in TimesOf(myData) : WithTime(retval', t) = WithTime(myData, t)
          /\ \A i, j \in 1..Len(retval') :
                (/\ i < j
                 /\ retval'[i].time # NoneT
                 /\ retval'[i].time = retval'[j].time
                 /\ retval'[i].sat \in Requested
                 /\ retval'[j].sat \in Requested)
                => SatPos(retval'[i].sat) <= SatPos(retval'[j].sat)
      ]_vars

\* two satellites gave records of equal time, and the sort had to move a record
C18_Witness ==
    /\ outcome = "list"
    /\ \E i, j \in 1..Len(retval) :
          /\ i < j
          /\ retval[i].time = retval[j].time
          /\ retval[i].sat \in Requested
          /\ retval[j].sat \in Requested
          /\ retval[i].sat # retval[j].sat
    /\ \E i \in 1..(Len(expect) - 1) : expect[i].time > expect[i + 1].time


\* the names of a listing that carry a two-digit version suffix
Versioned(dl) == {i \in 1..Len(dl) : dl[i].ver >= 0}

HighestVersion(dl) ==
    CHOOSE v \in {dl[i].ver : i \in Versioned(dl)} :
        \A i \in Versioned(dl) : dl[i].ver <= v

\* C13: when at least one name of a non-empty listing carries a two-digit
\* version suffix, the file either reader downloads is the listed name with
\* the numerically highest version, whatever the order of the listing.
C13_HighestVersion ==
    Versioned(dirlist) # {} =>
        \A f \in scratch : f.ver = HighestVersion(dirlist)

\* C14: when no name of a non-empty listing carries a parsable version
\* suffix, version resolution does not fail and selects index 0.
C14_NoVersionFirst ==
    (dirlist # <<>> /\ Versioned(dirlist) = {} /\ ~Running("resolve")) =>
        (exc # "ValueError" /\ maxind = 0)


\* C19: the 'f107' of the returned dictionary is the tabulated daily F10.7
\* of the day before the selected date, for every date the call accepts,
\* the first tabulated date included.
C19_F107PreviousDay ==
    fout = "dict" =>
        \E i \in 1..Len(tdate) :
            /\ tdate[i] = dictOut.datetime.date - 1
            /\ dictOut.f107 = tf107[i]

\* the 3-hour AP value k slots (3k hours) before the slot of the selected
\* date and hour, for a slot inside the table
ApPrior(k) ==
    LET row  == CHOOSE i \in 1..Len(tdate) : tdate[i] = dictOut.datetime.date
        slot == 8 * (row - 1) + (dictOut.datetime.hour \div 3) - k
    IN  tap[(slot \div 8) + 1][(slot % 8) + 1]

\* the quotient m equals the average of the eight values from k slots
\* before to k + 7 slots before
IsMeanOfEight(m, k) ==
    m.sum * 8 = m.n * Sum([i \in 1..8 |-> ApPrior(k + i - 1)])

\* C20: the sixth entry of 'ap' is the average of the eight 3-hour AP values
\* from 12 to 33 hours before the current slot, the seventh the average of
\* the eight values from 36 to 57 hours before it (for a date with at least
\* three tabulated days before it).
C20_ApAverages ==
    (fout = "dict" /\ dtInd >= 3) =>
        /\ IsMeanOfEight(dictOut.ap[6], 4)
        /\ IsMeanOfEight(dictOut.ap[7], 12)


\* the scratch file the first call has downloaded and not yet parsed
InUse == IF Running("parse") THEN {dirlist[maxind + 1]} ELSE {}

\* the scratch file the second call has downloaded and not yet parsed
PeerInUse == IF peerPc = "parse" THEN {peerFile} ELSE {}

\* C21: with two requests in flight on the shared scratch directory, a
\* scratch file one request is using is neither deleted nor written by the
\* other: the files in use are in the directory, and the two requests never
\* use one name.
C21_ScratchIsolated ==
    /\ InUse \subseteq scratch
    /\ PeerInUse \subseteq scratch
    /\ InUse \cap PeerInUse = {}


Last(q) == q[Len(q)]

\* the entry the statement at hand writes for its slot
IsSlotOp(e, name) == e.op = name /\ e.sat = sat[si] /\ e.day = myTime

\* C22: inside every (day, satellite) slot the steps come in the order
\* directory change, listing, version resolution, retrieval, parsing and
\* filtering with accumulation: a file is retrieved only after the directory
\* change and the listing of its own slot, and records are accumulated only
\* after the file of their slot has been retrieved.
C22_SlotOrder ==
    [][/\ (pc' = "nlst" /\ pc # "nlst")
            => (pc = "cwd" /\ IsSlotOp(Last(netLog'), "cwd") /\ Last(netLog').res = "ok")
       /\ (pc' = "resolve" /\ pc # "resolve")
            => (pc = "nlst" /\ IsSlotOp(Last(netLog'), "nlst")
                           /\ IsSlotOp(Last(netLog), "cwd"))
       /\ (pc' = "retr" /\ pc # "retr") => (pc = "resolve" /\ netLog' = netLog)
       /\ (netLog' # netLog /\ Last(netLog').op = "retr")
            => /\ pc = "retr"
               /\ IsSlotOp(Last(netLog'), "retr")
               /\ IsSlotOp(Last(netLog), "nlst")
               /\ IsSlotOp(netLog[Len(netLog) - 1], "cwd")
               /\ netLog[Len(netLog) - 1].res = "ok"
       /\ (pc' = "parse" /\ pc # "parse")
            => (pc = "retr" /\ IsSlotOp(Last(netLog'), "retr") /\ Last(netLog').res = "ok")
       /\ Len(myData') > Len(myData)
            => /\ pc = "parse"
               /\ IsSlotOp(Last(netLog), "retr")
               /\ Last(netLog).res = "ok"
               /\ netLog' = netLog
      ]_vars

\* records of a second slot have been accumulated behind those of a first
C22_Witness ==
    /\ Running("for")
    /\ si = 3
    /\ \E i, j \in 1..Len(myData) :
          i < j /\ myData[i].sat = sat[1] /\ myData[j].sat = sat[2]

\* the (satellite, day) slots of the entries of the log for one operation
SlotsOf(name) ==
    LET q == SelectSeq(netLog, LAMBDA e : e.op = name)
    IN  [i \in 1..Len(q) |-> <<q[i].sat, q[i].day>>]

\* the slots of the request: the days from midnight of sTime's day on that
\* start before eTime, in increasing order, and in each day the satellites in
\* request order
SlotsOfRequest ==
    LET n == Len(sat)
    IN  [k \in 1..(Cardinality(DaysOfRequest) * n) |->
            <<sat[((k - 1) % n) + 1], Midnight(sTime) + ((k - 1) \div n) * DayLen>>]

IsPrefix(p, q) == Len(p) <= Len(q) /\ \A i \in 1..Len(p) : p[i] = q[i]

\* C23: the per-day loop starts at midnight of sTime's day and visits, in
\* increasing order and once each, exactly the days before eTime; in each
\* day every requested satellite gets one directory change and one listing,
\* in request order.  An abort cuts the sequence short and adds nothing.
\* (Stated at the end of every slot, of the loop and of the call.)
C23_DaysAndSlots ==
    (pc \in {"for", "quit"} \/ (Ended /\ pc # "args")) =>
        /\ IsPrefix(SlotsOf("cwd"), SlotsOfRequest)
        /\ IsPrefix(SlotsOf("nlst"), SlotsOf("cwd"))
        /\ pc \in {"quit", "return"} =>
              /\ SlotsOf("cwd") = SlotsOfRequest
              /\ SlotsOf("nlst") = SlotsOfRequest

\* a request of two satellites that starts inside a day and ends inside the
\* next has run through its four slots
C23_Witness ==
    /\ pc = "return"
    /\ sTime # Midnight(sTime)
    /\ eTime # Midnight(eTime)
    /\ Len(SlotsOf("nlst")) = 4

\* C24: when every operation returns or raises, every request ends; the day
\* cursor grows by exactly one day in every iteration of the per-day loop.
C24_Terminates ==
    /\ <>Ended
    /\ [][pc = "rm" => (myTime' = myTime + DayLen /\ pc' = "while")]_vars

\* a request has gone twice through the per-day loop and returned
C24_Witness ==
    /\ Ended
    /\ pc = "return"
    /\ myTime = Midnight(sTime) + 2 * DayLen
    /\ \E i \in 1..Len(netLog) :
          netLog[i].op = "retr" /\ netLog[i].day = Midnight(sTime) + DayLen

\* C25: once the processing of a day is complete, no scratch file that
\* carries the date of that day is left, a file of a failed transfer
\* included.
C25_DayFilesRemoved ==
    myTime # NoneT =>
        \A n \in scratch : \A m \in DaysOfRequest : m < myTime => n.date # DateOf(m)

\* a day is complete in which a transfer failed
C25_Witness ==
    /\ Running("while")
    /\ myTime > Midnight(sTime)
    /\ \E i \in 1..Len(netLog) :
          netLog[i].op = "retr" /\ netLog[i].res = "error" /\ netLog[i].day < myTime
    /\ scratch = {}

\* the times of the request are not two datetimes in order
BadTimes ==
    \/ ~isinstance_datetime(sTime)
    \/ (eTime # NoneT /\ ~isinstance_datetime(eTime))
    \/ (isinstance_datetime(sTime) /\ isinstance_datetime(eTime) /\ eTime < sTime)

\* C26: a request whose eTime is before sTime, or whose sTime or eTime is no
\* datetime, ends in an assertion failure before any network operation and
\* before the scratch directory or a scratch file is made.
C26_BadTimesRejected ==
    BadTimes =>
        /\ pc = "args"
        /\ Ended => exc = "AssertionError"
        /\ netLog = <<>>
        /\ ~ftpOpen
        /\ ~tmpDirExists
        /\ scratch = {}

\* a request with eTime before sTime has been rejected
C26_Witness ==
    /\ Ended
    /\ exc = "AssertionError"
    /\ isinstance_datetime(sTime)
    /\ isinstance_datetime(eTime)
    /\ eTime < sTime

=============================================================================
